---- MODULE Spec2Model ----
(***************************************************************************)
(* The retrieval graph of backend/src/retrieval_graph/graph.ts: the        *)
(* message normalizer, the four nodes, the routing dispatch and the graph  *)
(* wiring, as a state machine over one invocation's Workflow State.        *)
(***************************************************************************)
EXTENDS Integers, Sequences, FiniteSets, TLC

VARIABLES
    state,          \* the Workflow State: [query, route, documents, messages]
    pc,             \* START, the node about to run, "routeQuery", END or "error"
    err,            \* the error the invocation aborted with ("" when none)
    input,          \* history: the Workflow State the invocation started with
    ran,            \* history: the nodes that have completed or aborted, in order
    retrieved,      \* history: the responses of the retriever, one per call
    modelCalls,     \* history: the chat-model calls, [node, messages, response]
    routerCalls,    \* history: the number of structured (router) model calls
    nmArg,          \* normalizer harness: the caller's array, as it is now
    nmArg0,         \* normalizer harness: the caller's array, as it was given
    nmOut,          \* normalizer harness: result of the first call
    nmOut2,         \* normalizer harness: result of the call on nmOut
    nmCalls,        \* normalizer harness: calls made so far
    peer            \* a second invocation in progress, suspended (NoPeer when none)

wfVars == <<state, pc, err, input, ran, retrieved, modelCalls, routerCalls>>
nmVars == <<nmArg, nmArg0, nmOut, nmOut2, nmCalls>>
cxVars == <<peer>>
vars == <<state, pc, err, input, ran, retrieved, modelCalls, routerCalls,
          nmArg, nmArg0, nmOut, nmOut2, nmCalls, peer>>

---------------------------------------------------------------------------
(* Bounds of the model.                                                    *)

MaxDocs == 3
MaxPrior == 2
MaxNorm == 2

---------------------------------------------------------------------------
(* JavaScript values as far as the code looks at them: undefined, strings  *)
(* and numbers, with truthiness (||, !), nullishness (??) and the string   *)
(* conversion of a template literal.                                       *)

Undefined == [t |-> "undefined", s |-> "", n |-> 0]
Str(x) == [t |-> "string", s |-> x, n |-> 0]
Num(k) == [t |-> "number", s |-> "", n |-> k]

Truthy(v) ==
    \/ v.t = "string" /\ v.s # ""
    \/ v.t = "number" /\ v.n # 0

Nullish(v) == v.t = "undefined"

TemplateStr(v) ==
    IF v.t = "string" THEN v.s
    ELSE IF v.t = "number" THEN ToString(v.n)
    ELSE "undefined"

---------------------------------------------------------------------------
(* Documents: pageContent and the metadata the code reads                  *)
(* (metadata.source, metadata.filename, metadata.loc.pageNumber).          *)

Doc(c, src, fn, pg) ==
    [pageContent |-> c, source |-> src, filename |-> fn, pageNumber |-> pg]

\* What the retriever may return: the same identity under metadata.source and
\* under metadata.filename (d1, d2), documents with no usable source or page
\* (d3, d4), sources and pages holding the key separator (d5, d6), and a
\* page given as a string (d7).
DocPool ==
    { Doc("d1", Str("reportA.pdf"), Undefined, Num(3)),
      Doc("d2", Str(""), Str("reportA.pdf"), Num(3)),
      Doc("d3", Undefined, Undefined, Undefined),
      Doc("d4", Str(""), Undefined, Undefined),
      Doc("d5", Str("book::vol1"), Undefined, Str("2")),
      Doc("d6", Str("book"), Undefined, Str("vol1::2")),
      Doc("d7", Str("reportA.pdf"), Undefined, Str("3")) }

SeqsUpTo(S, n) == UNION {[1..k -> S] : k \in 0..n}

RetrieverResponses == SeqsUpTo(DocPool, MaxDocs)

\* docSource without the metadata.filename fallback.
docSource_skipsFilename(doc) ==
    IF Truthy(doc.source) THEN doc.source ELSE Str("unknown-source")

docSource(doc) ==
    IF Truthy(doc.source) THEN doc.source
    ELSE IF Truthy(doc.filename) THEN doc.filename
    ELSE Str("unknown-source")

docPage(doc) ==
    IF Nullish(doc.pageNumber) THEN Str("unknown-page") ELSE doc.pageNumber

docKey(doc) == TemplateStr(docSource(doc)) \o "::" \o TemplateStr(docPage(doc))

\* response.filter(...) with the `seen` set threaded through the callback.
RECURSIVE filterSeen(_, _)
filterSeen(response, seen) ==
    IF response = <<>> THEN <<>>
    ELSE LET doc == Head(response)
             key == docKey(doc)
         IN  IF key \in seen
             THEN filterSeen(Tail(response), seen)
             ELSE <<doc>> \o filterSeen(Tail(response), seen \cup {key})

uniqueDocuments(response) == filterSeen(response, {})

---------------------------------------------------------------------------
(* Conversation turns: _getType(), content, additional_kwargs.             *)

Text(s) == [kind |-> "text", text |-> s, context |-> <<>>]

Message(type, content, kwargs) ==
    [type |-> type, content |-> content, additional_kwargs |-> kwargs]

NoKwargs == [k \in {} |-> ""]

HumanMessage(content) == Message("human", content, NoKwargs)

KwargKeys == {"name", "function_call"}
KwargValues == {"v1", "v2"}
KwargMaps == UNION {[ks -> KwargValues] : ks \in SUBSET KwargKeys}
MessageTypes == {"human", "ai", "system", "tool"}

\* The copy of additional_kwargs with the delete left out.
additionalKwargs_keepsName(message) == message.additional_kwargs

additionalKwargs(message) ==
    LET copy == message.additional_kwargs
    IN  IF "name" \in DOMAIN copy
        THEN [k \in (DOMAIN copy) \ {"name"} |-> copy[k]]
        ELSE copy

\* normalizeMessage with the two constructors swapped.
normalizeMessage_swapped(message) ==
    IF message.type = "human"
    THEN Message("ai", message.content, additionalKwargs(message))
    ELSE IF message.type = "ai"
    THEN Message("human", message.content, additionalKwargs(message))
    ELSE Message("human", message.content, additionalKwargs(message))

\* normalizeMessage handing back turns of other roles under their own role.
normalizeMessage_keepsOtherRoles(message) ==
    Message(message.type, message.content, additionalKwargs(message))

normalizeMessage(message) ==
    IF message.type = "human"
    THEN Message("human", message.content, additionalKwargs(message))
    ELSE IF message.type = "ai"
    THEN Message("ai", message.content, additionalKwargs(message))
    ELSE Message("human", message.content, additionalKwargs(message))

normalizeMessages(messages) ==
    [i \in 1..Len(messages) |-> normalizeMessage(messages[i])]

\* The argument turn after the call: the delete acts on the spread copy.
messageAfterNormalize(message) == message

argAfterNormalize(messages) ==
    [i \in 1..Len(messages) |-> messageAfterNormalize(messages[i])]

---------------------------------------------------------------------------
(* The rendered response prompt and the context block.                     *)

formatDocs(documents) ==
    [i \in 1..Len(documents) |->
        [pageContent |-> documents[i].pageContent, source |-> documents[i].source]]

Prompt(question, context) == [kind |-> "prompt", text |-> question, context |-> context]

---------------------------------------------------------------------------
(* The Workflow State and how a node's update is applied to it.            *)

WorkflowState(query, route, documents, messages) ==
    [query |-> query, route |-> route, documents |-> documents, messages |-> messages]

applyRoute(s, route) == [s EXCEPT !.route = route]

applyDocuments(s, documents) == [s EXCEPT !.documents = documents]

applyMessages(s, messages) == [s EXCEPT !.messages = @ \o messages]

---------------------------------------------------------------------------
(* The nodes, as functions of the state and of what the external call      *)
(* answered.                                                               *)

Return(v) == [ok |-> TRUE, value |-> v, error |-> ""]
Throw(e) == [ok |-> FALSE, value |-> "", error |-> e]

RouteEnum == {"retrieve", "direct"}

\* The structured answer taken as it comes, without the enum check.
schemaParse_unvalidated(raw) == Return(raw.s)


\* z.object({ route: z.enum(['retrieve', 'direct']), ... }) applied to the
\* model's structured answer.
schemaParse(raw) ==
    IF raw.t = "string" /\ raw.s \in RouteEnum
    THEN Return(raw.s)
    ELSE Throw("schema")

\* routeQuery with a silent default: an unrecognised route goes to directAnswer.
routeQuery_defaultsToDirect(s) ==
    LET route == s.route
    IN  IF ~Truthy(route) THEN Throw("Route is not set")
        ELSE IF route = Str("retrieve") THEN Return("retrieveDocuments")
        ELSE Return("directAnswer")

\* routeQuery testing `route === undefined` in place of `!route`.
routeQuery_undefinedOnly(s) ==
    LET route == s.route
    IN  IF route = Undefined THEN Throw("Route is not set")
        ELSE IF route = Str("retrieve") THEN Return("retrieveDocuments")
        ELSE IF route = Str("direct") THEN Return("directAnswer")
        ELSE Throw("Invalid route")

routeQuery(s) ==
    LET route == s.route
    IN  IF ~Truthy(route) THEN Throw("Route is not set")
        ELSE IF route = Str("retrieve") THEN Return("retrieveDocuments")
        ELSE IF route = Str("direct") THEN Return("directAnswer")
        ELSE Throw("Invalid route")

\* directAnswer sending the prior history ahead of the query turn.
directAnswerInput_withHistory(s) ==
    normalizeMessages(s.messages \o <<HumanMessage(Text(s.query))>>)


directAnswerInput(s) == normalizeMessages(<<HumanMessage(Text(s.query))>>)

\* directAnswer returning the response alone.
directAnswerUpdate_responseOnly(s, response) == <<response>>

directAnswerUpdate(s, response) == <<HumanMessage(Text(s.query)), response>>

retrieveDocumentsUpdate(response) == uniqueDocuments(response)

formattedPromptMessage(s) == HumanMessage(Prompt(s.query, formatDocs(s.documents)))

\* The model input without the prior history.
messageHistory_promptOnly(s) == normalizeMessages(<<formattedPromptMessage(s)>>)

messageHistory(s) == normalizeMessages(s.messages \o <<formattedPromptMessage(s)>>)

\* state.messages after normalizeMessages has been handed its turns.
messagesAfterHistory(s) == SubSeq(argAfterNormalize(s.messages), 1, Len(s.messages))

\* generateResponse recording the rendered prompt as the human turn.
generateResponseUpdate_promptTurn(s, response) == <<formattedPromptMessage(s), response>>

generateResponseUpdate(s, response) == <<HumanMessage(Text(s.query)), response>>

---------------------------------------------------------------------------
(* The graph wiring.                                                       *)

START == "__start__"
END == "__end__"

Nodes == {"retrieveDocuments", "generateResponse", "checkQueryType", "directAnswer"}

\* The wiring with directAnswer feeding generateResponse.
Edges_directThenGenerate ==
    { <<START, "checkQueryType">>,
      <<"retrieveDocuments", "generateResponse">>,
      <<"generateResponse", END>>,
      <<"directAnswer", "generateResponse">> }

\* The wiring with directAnswer handing over to retrieveDocuments.
Edges_directToRetrieve ==
    { <<START, "checkQueryType">>,
      <<"retrieveDocuments", "generateResponse">>,
      <<"generateResponse", END>>,
      <<"directAnswer", "retrieveDocuments">> }


Edges ==
    { <<START, "checkQueryType">>,
      <<"retrieveDocuments", "generateResponse">>,
      <<"generateResponse", END>>,
      <<"directAnswer", END>> }

ConditionalEdges == {"checkQueryType"}

BranchTargets == {"retrieveDocuments", "directAnswer"}

nextAfter(node) ==
    IF node \in ConditionalEdges THEN "routeQuery"
    ELSE CHOOSE target \in Nodes \cup {END} : <<node, target>> \in Edges

---------------------------------------------------------------------------
(* What the outside world answers.                                         *)

Queries == {"What is the capital of France?", "Summarize section 3 of the report"}

\* The structured model's raw `route` before the schema is applied.
RouterAnswers == {Str("retrieve"), Str("direct"), Str("other"), Undefined}

ModelResponses ==
    { Message("ai", Text("answer"), NoKwargs),
      Message("ai", Text("other answer"), [k \in {"function_call"} |-> "v1"]) }

\* Turns a caller may hand in as prior conversation.
PriorPool ==
    { Message("human", Text("earlier question"), [k \in {"name"} |-> "v1"]),
      Message("ai", Text("earlier answer"), NoKwargs),
      Message("system", Text("instructions"), [k \in KwargKeys |-> "v1"]) }

PriorHistories == SeqsUpTo(PriorPool, MaxPrior)

---------------------------------------------------------------------------
(* One invocation of the compiled graph.                                   *)

\* Everything one invocation owns, as it is kept while the invocation is
\* suspended at an await and another one runs.
Invocation(s, p, e, i, r, d, m, c) ==
    [state |-> s, pc |-> p, err |-> e, input |-> i, ran |-> r,
     retrieved |-> d, modelCalls |-> m, routerCalls |-> c]

NoPeer ==
    Invocation(WorkflowState("", Undefined, <<>>, <<>>), "absent", "",
               WorkflowState("", Undefined, <<>>, <<>>), <<>>, <<>>, <<>>, 0)

Solo == peer = NoPeer


NormIdle ==
    /\ nmArg = <<>>
    /\ nmArg0 = <<>>
    /\ nmOut = <<>>
    /\ nmOut2 = <<>>
    /\ nmCalls = 0

Init ==
    /\ state \in {WorkflowState(q, Undefined, <<>>, h) : q \in Queries, h \in PriorHistories}
    /\ input = state
    /\ pc = START
    /\ err = ""
    /\ ran = <<>>
    /\ retrieved = <<>>
    /\ modelCalls = <<>>
    /\ routerCalls = 0
    /\ NormIdle
    /\ Solo

\* The record kept of one model.invoke(messages); NoResponse when it threw.
NoResponse == Message("none", Text(""), NoKwargs)

ModelCall(node, messages, response) ==
    [node |-> node, messages |-> messages, response |-> response]

\* A failure that is swallowed: the invocation ends as if the node had succeeded.
Abort_swallowed(e) ==
    /\ pc' = END
    /\ err' = e

Abort(e) ==
    /\ pc' = "error"
    /\ err' = e

Start ==
    /\ pc = START
    /\ pc' = nextAfter(START)
    /\ UNCHANGED <<state, err, input, ran, retrieved, modelCalls, routerCalls>>
    /\ UNCHANGED nmVars
    /\ UNCHANGED cxVars

CheckQueryType ==
    /\ pc = "checkQueryType"
    /\ ran' = Append(ran, "checkQueryType")
    /\ routerCalls' = routerCalls + 1
    /\ \/ \E raw \in RouterAnswers :
            LET response == schemaParse(raw)
            IN  IF response.ok
                THEN /\ state' = applyRoute(state, Str(response.value))
                     /\ pc' = nextAfter("checkQueryType")
                     /\ err' = err
                ELSE /\ Abort(response.error)
                     /\ state' = state
       \/ /\ Abort("model")
          /\ state' = state
    /\ UNCHANGED <<input, retrieved, modelCalls>>
    /\ UNCHANGED nmVars
    /\ UNCHANGED cxVars

RouteQuery ==
    /\ pc = "routeQuery"
    /\ LET decision == routeQuery(state)
       IN  IF decision.ok /\ decision.value \in BranchTargets
           THEN /\ pc' = decision.value
                /\ err' = err
           ELSE Abort(decision.error)
    /\ UNCHANGED <<state, input, ran, retrieved, modelCalls, routerCalls>>
    /\ UNCHANGED nmVars
    /\ UNCHANGED cxVars

DirectAnswer ==
    /\ pc = "directAnswer"
    /\ ran' = Append(ran, "directAnswer")
    /\ \/ \E response \in ModelResponses :
            /\ modelCalls' = Append(modelCalls,
                                    ModelCall("directAnswer", directAnswerInput(state), response))
            /\ state' = applyMessages(state, directAnswerUpdate(state, response))
            /\ pc' = nextAfter("directAnswer")
            /\ err' = err
       \/ /\ modelCalls' = Append(modelCalls,
                                    ModelCall("directAnswer", directAnswerInput(state), NoResponse))
          /\ Abort("model")
          /\ state' = state
    /\ UNCHANGED <<input, retrieved, routerCalls>>
    /\ UNCHANGED nmVars
    /\ UNCHANGED cxVars

\* What the retriever answers with while two invocations are in progress.
ConcurrentDocs == {d \in DocPool : d.pageContent \in {"d1", "d2"}}

ConcurrentResponses == SeqsUpTo(ConcurrentDocs, 2)

RetrieverAnswers == IF peer = NoPeer THEN RetrieverResponses ELSE ConcurrentResponses

\* retrieveDocuments with `seen` kept at module level, shared by all invocations.
RetrieveDocuments_sharedSeen ==
    /\ pc = "retrieveDocuments"
    /\ ran' = Append(ran, "retrieveDocuments")
    /\ \/ \E response \in RetrieverAnswers :
            /\ retrieved' = Append(retrieved, response)
            /\ state' = applyDocuments(state,
                    filterSeen(response,
                               {docKey(d) : d \in UNION {{r[j] : j \in DOMAIN r} :
                                                          r \in {peer.retrieved[i] : i \in DOMAIN peer.retrieved}}}))
            /\ pc' = nextAfter("retrieveDocuments")
            /\ err' = err
       \/ /\ Abort("retriever")
          /\ retrieved' = retrieved
          /\ state' = state
    /\ UNCHANGED <<input, modelCalls, routerCalls>>
    /\ UNCHANGED nmVars
    /\ UNCHANGED cxVars


\* retrieveDocuments also returning the query as a turn of `messages`.
RetrieveDocuments_appendsQuery ==
    /\ pc = "retrieveDocuments"
    /\ ran' = Append(ran, "retrieveDocuments")
    /\ \/ \E response \in RetrieverAnswers :
            /\ retrieved' = Append(retrieved, response)
            /\ state' = applyMessages(applyDocuments(state, retrieveDocumentsUpdate(response)),
                                      <<HumanMessage(Text(state.query))>>)
            /\ pc' = nextAfter("retrieveDocuments")
            /\ err' = err
       \/ /\ Abort("retriever")
          /\ retrieved' = retrieved
          /\ state' = state
    /\ UNCHANGED <<input, modelCalls, routerCalls>>
    /\ UNCHANGED nmVars
    /\ UNCHANGED cxVars

RetrieveDocuments ==
    /\ pc = "retrieveDocuments"
    /\ ran' = Append(ran, "retrieveDocuments")
    /\ \/ \E response \in RetrieverAnswers :
            /\ retrieved' = Append(retrieved, response)
            /\ state' = applyDocuments(state, retrieveDocumentsUpdate(response))
            /\ pc' = nextAfter("retrieveDocuments")
            /\ err' = err
       \/ /\ Abort("retriever")
          /\ retrieved' = retrieved
          /\ state' = state
    /\ UNCHANGED <<input, modelCalls, routerCalls>>
    /\ UNCHANGED nmVars
    /\ UNCHANGED cxVars

\* generateResponse ending the invocation without a model call when there is
\* no document to answer from.
GenerateResponse_skipsWhenEmpty ==
    /\ pc = "generateResponse"
    /\ ran' = Append(ran, "generateResponse")
    /\ LET after == [state EXCEPT !.messages = messagesAfterHistory(state)]
       IN  IF state.documents = <<>>
           THEN /\ modelCalls' = modelCalls
                /\ state' = state
                /\ pc' = nextAfter("generateResponse")
                /\ err' = err
           ELSE \/ \E response \in ModelResponses :
                     /\ modelCalls' = Append(modelCalls,
                                             ModelCall("generateResponse", messageHistory(state), response))
                     /\ state' = applyMessages(after, generateResponseUpdate(state, response))
                     /\ pc' = nextAfter("generateResponse")
                     /\ err' = err
                \/ /\ modelCalls' = Append(modelCalls,
                                             ModelCall("generateResponse", messageHistory(state), NoResponse))
                   /\ Abort("model")
                   /\ state' = after
    /\ UNCHANGED <<input, retrieved, routerCalls>>
    /\ UNCHANGED nmVars
    /\ UNCHANGED cxVars


GenerateResponse ==
    /\ pc = "generateResponse"
    /\ ran' = Append(ran, "generateResponse")
    /\ LET after == [state EXCEPT !.messages = messagesAfterHistory(state)]
       IN  \/ \E response \in ModelResponses :
                /\ modelCalls' = Append(modelCalls,
                                        ModelCall("generateResponse", messageHistory(state), response))
                /\ state' = applyMessages(after, generateResponseUpdate(state, response))
                /\ pc' = nextAfter("generateResponse")
                /\ err' = err
           \/ /\ modelCalls' = Append(modelCalls,
                                        ModelCall("generateResponse", messageHistory(state), NoResponse))
              /\ Abort("model")
              /\ state' = after
    /\ UNCHANGED <<input, retrieved, routerCalls>>
    /\ UNCHANGED nmVars
    /\ UNCHANGED cxVars

Next ==
    \/ Start
    \/ CheckQueryType
    \/ RouteQuery
    \/ DirectAnswer
    \/ RetrieveDocuments
    \/ GenerateResponse

Spec == Init /\ [][Next]_vars

\* The runtime runs the next node as soon as the previous one has returned,
\* and every awaited call returns or throws: a step that can be taken is taken.
SpecFair == Spec /\ WF_vars(Next)

---------------------------------------------------------------------------
(* Two invocations of the compiled graph in progress at once, their node   *)
(* steps interleaved: the one that is running is suspended and the other   *)
(* resumed.                                                                *)

Current == Invocation(state, pc, err, input, ran, retrieved, modelCalls, routerCalls)

ConcurrentHistories == {<<>>} \cup {<<m>> : m \in PriorPool}

InitConcurrent ==
    /\ state \in {WorkflowState("What is the capital of France?", Undefined, <<>>, h) :
                    h \in ConcurrentHistories}
    /\ input = state
    /\ pc = START
    /\ err = ""
    /\ ran = <<>>
    /\ retrieved = <<>>
    /\ modelCalls = <<>>
    /\ routerCalls = 0
    /\ NormIdle
    /\ peer \in {Invocation(s, START, "", s, <<>>, <<>>, <<>>, 0) :
                    s \in {WorkflowState(q, Undefined, <<>>, h) :
                              q \in Queries, h \in ConcurrentHistories}}

Switch ==
    /\ peer # NoPeer
    /\ state' = peer.state
    /\ pc' = peer.pc
    /\ err' = peer.err
    /\ input' = peer.input
    /\ ran' = peer.ran
    /\ retrieved' = peer.retrieved
    /\ modelCalls' = peer.modelCalls
    /\ routerCalls' = peer.routerCalls
    /\ peer' = Current
    /\ UNCHANGED nmVars

NextConcurrent ==
    \/ Start
    \/ CheckQueryType
    \/ RouteQuery
    \/ DirectAnswer
    \/ RetrieveDocuments
    \/ GenerateResponse
    \/ Switch

SpecConcurrent == InitConcurrent /\ [][NextConcurrent]_vars


---------------------------------------------------------------------------
(* The routing dispatch on its own: routeQuery applied to any Workflow     *)
(* State, the ones the graph never hands it included.                      *)

RouteValues ==
    {Undefined, Str(""), Str("retrieve"), Str("direct"), Str("other"), Str("Retrieve")}

DispatchDocuments == {<<>>} \cup {<<d>> : d \in DocPool}

InitDispatch ==
    /\ state \in {WorkflowState(q, r, d, h) :
                    q \in Queries, r \in RouteValues,
                    d \in DispatchDocuments, h \in PriorHistories}
    /\ input = state
    /\ pc = "routeQuery"
    /\ err = ""
    /\ ran = <<"checkQueryType">>
    /\ retrieved = <<>>
    /\ modelCalls = <<>>
    /\ routerCalls = 1
    /\ NormIdle
    /\ Solo

NextDispatch == RouteQuery

SpecDispatch == InitDispatch /\ [][NextDispatch]_vars

---------------------------------------------------------------------------
(* The normalizer on its own: normalizeMessages applied to any sequence of *)
(* turns, and then to its own result.                                      *)

MessageContents == {Text("hello"), Prompt("q", <<>>)}

AllMessages ==
    {Message(type, content, kwargs) :
        type \in MessageTypes, content \in MessageContents, kwargs \in KwargMaps}

NormInputs == SeqsUpTo(AllMessages, MaxNorm)

WorkflowIdle ==
    /\ state = WorkflowState("", Undefined, <<>>, <<>>)
    /\ input = state
    /\ pc = END
    /\ err = ""
    /\ ran = <<>>
    /\ retrieved = <<>>
    /\ modelCalls = <<>>
    /\ routerCalls = 0

InitNormalize ==
    /\ nmArg \in NormInputs
    /\ nmArg0 = nmArg
    /\ nmOut = <<>>
    /\ nmOut2 = <<>>
    /\ nmCalls = 0
    /\ WorkflowIdle
    /\ Solo

NormalizeFirst ==
    /\ nmCalls = 0
    /\ nmOut' = normalizeMessages(nmArg)
    /\ nmArg' = argAfterNormalize(nmArg)
    /\ nmCalls' = 1
    /\ UNCHANGED <<nmArg0, nmOut2>>
    /\ UNCHANGED wfVars
    /\ UNCHANGED cxVars

NormalizeAgain ==
    /\ nmCalls = 1
    /\ nmOut2' = normalizeMessages(nmOut)
    /\ nmOut' = argAfterNormalize(nmOut)
    /\ nmCalls' = 2
    /\ UNCHANGED <<nmArg, nmArg0>>
    /\ UNCHANGED wfVars
    /\ UNCHANGED cxVars

NextNormalize == NormalizeFirst \/ NormalizeAgain

SpecNormalize == InitNormalize /\ [][NextNormalize]_vars

---------------------------------------------------------------------------
(* Notions the properties below are stated with.                           *)

Range(seq) == {seq[i] : i \in DOMAIN seq}

\* A document's identity: the pair (source-or-filename-or-"unknown-source",
\* page-number-or-"unknown-page"), each component taken as it prints, so that
\* page 3 and page "3" are one page.
Identity(doc) == <<TemplateStr(docSource(doc)), TemplateStr(docPage(doc))>>

RECURSIVE IsSubsequence(_, _)
IsSubsequence(a, b) ==
    IF a = <<>> THEN TRUE
    ELSE IF b = <<>> THEN FALSE
    ELSE IF Head(a) = Head(b) THEN IsSubsequence(Tail(a), Tail(b))
    ELSE IsSubsequence(a, Tail(b))

FirstWithIdentity(response, id) ==
    response[CHOOSE i \in DOMAIN response :
                /\ Identity(response[i]) = id
                /\ \A j \in 1..(i - 1) : Identity(response[j]) # id]

OnePerIdentity(response, documents) ==
    \A id \in {Identity(d) : d \in Range(response)} :
        Cardinality({i \in DOMAIN documents : Identity(documents[i]) = id}) = 1

RetrieveCompleted == Len(retrieved) = 1

PriorLen == Len(input.messages)

CallsOf(node) == {i \in DOMAIN modelCalls : modelCalls[i].node = node}

AllowedPaths ==
    { <<"checkQueryType", "retrieveDocuments", "generateResponse">>,
      <<"checkQueryType", "directAnswer">> }

IsPrefix(a, b) == Len(a) <= Len(b) /\ SubSeq(b, 1, Len(a)) = a

---------------------------------------------------------------------------
(* C1: whatever list the retriever returns, the `documents` produced by    *)
(* retrieveDocuments is a subsequence of it holding exactly one document   *)
(* per distinct (source, page) identity, namely the first with that        *)
(* identity in input order.                                                *)
C1_DedupPerIdentity ==
    RetrieveCompleted =>
        LET response == retrieved[1]
            documents == state.documents
        IN  /\ IsSubsequence(documents, response)
            /\ OnePerIdentity(response, documents)
            /\ \A i \in DOMAIN documents :
                  documents[i] = FirstWithIdentity(response, Identity(documents[i]))

(* C2: the dispatch is decided by `route` alone: 'retrieve' goes to        *)
(* retrieveDocuments, 'direct' to directAnswer, anything else (unset       *)
(* included) is an error and no next node, whatever the other fields hold. *)
C2_DispatchByRouteAlone ==
    pc # "routeQuery" =>
        /\ state.route = Str("retrieve") => pc = "retrieveDocuments" /\ err = ""
        /\ state.route = Str("direct") => pc = "directAnswer" /\ err = ""
        /\ state.route \notin {Str("retrieve"), Str("direct")} => pc = "error" /\ err # ""
        /\ \A q \in Queries, d \in DispatchDocuments, h \in PriorHistories :
              routeQuery(WorkflowState(q, state.route, d, h)) = routeQuery(state)

C2_Witness ==
    /\ pc = "error"
    /\ state.route = Str("other")
    /\ state.documents # <<>>
    /\ state.messages # <<>>

(* C3, as stated: an unset route raises 'Route is not set', every other    *)
(* value that is neither 'retrieve' nor 'direct' raises 'Invalid route',   *)
(* and neither proceeds to a node.                                         *)
C3_AsStated ==
    pc # "routeQuery" =>
        /\ state.route = Undefined => pc = "error" /\ err = "Route is not set"
        /\ state.route \notin {Undefined, Str("retrieve"), Str("direct")} =>
              pc = "error" /\ err = "Invalid route"

(* C3, amended: an unset route and every other falsy route (the empty      *)
(* string) raise 'Route is not set'; every truthy route that is neither    *)
(* 'retrieve' nor 'direct' raises 'Invalid route'; neither proceeds to a   *)
(* node.                                                                   *)
C3_FalsyIsNotSet ==
    pc # "routeQuery" =>
        /\ ~Truthy(state.route) => pc = "error" /\ err = "Route is not set"
        /\ Truthy(state.route) /\ state.route \notin {Str("retrieve"), Str("direct")} =>
              pc = "error" /\ err = "Invalid route"
        /\ pc = "error" => ran = <<"checkQueryType">> /\ state = input

C3_Witness ==
    /\ pc = "error"
    /\ state.route = Str("")
    /\ err = "Route is not set"

(* C4: the nodes run in the order checkQueryType, then either              *)
(* retrieveDocuments and generateResponse or directAnswer: checkQueryType  *)
(* is first, generateResponse runs only after retrieveDocuments has        *)
(* completed, the two branches never both run, no node runs twice, and a   *)
(* completed invocation has run exactly one branch.                        *)
C4_NodeOrder ==
    /\ \E path \in AllowedPaths : IsPrefix(ran, path)
    /\ \A i, j \in DOMAIN ran : ran[i] = ran[j] => i = j
    /\ ~("directAnswer" \in Range(ran) /\ "retrieveDocuments" \in Range(ran))
    /\ pc \in {"generateResponse"} =>
          ran = <<"checkQueryType", "retrieveDocuments">> /\ RetrieveCompleted
    /\ pc \in Nodes \ {"checkQueryType"} => ran # <<>> /\ ran[1] = "checkQueryType"
    /\ pc = END => ran \in AllowedPaths

C4_Witness ==
    /\ pc = END
    /\ ran = <<"checkQueryType", "retrieveDocuments", "generateResponse">>

(* C5: when the router answers 'direct', a completed invocation has added  *)
(* exactly two turns to `messages`, a human turn holding the original      *)
(* query and then the assistant turn the model answered, and `documents`   *)
(* is still empty.                                                         *)
C5_DirectAddsTwoTurns ==
    pc = END /\ state.route = Str("direct") =>
        /\ Len(state.messages) = PriorLen + 2
        /\ SubSeq(state.messages, 1, PriorLen) = input.messages
        /\ state.messages[PriorLen + 1] = Message("human", Text(input.query), NoKwargs)
        /\ Len(modelCalls) = 1
        /\ state.messages[PriorLen + 2] = modelCalls[1].response
        /\ state.messages[PriorLen + 2].type = "ai"
        /\ state.documents = <<>>

C5_Witness ==
    /\ pc = END
    /\ state.route = Str("direct")
    /\ input.messages # <<>>
    /\ Len(state.messages) = PriorLen + 2

(* C6: when the router answers 'retrieve', after retrieveDocuments          *)
(* `documents` holds exactly one entry per distinct identity of the        *)
(* retriever's result, the context block generateResponse passes to the    *)
(* model is built from exactly those documents, and the completed          *)
(* invocation has added the original query turn and then one assistant     *)
(* turn to `messages`.                                                     *)
C6_RetrievePath ==
    state.route = Str("retrieve") /\ RetrieveCompleted =>
        /\ Len(state.documents) = Cardinality({Identity(d) : d \in Range(retrieved[1])})
        /\ OnePerIdentity(retrieved[1], state.documents)
        /\ \A i \in CallsOf("generateResponse") :
              LET sent == modelCalls[i].messages
              IN  /\ sent # <<>>
                  /\ sent[Len(sent)].content.context = formatDocs(state.documents)
                  /\ Len(sent[Len(sent)].content.context) = Len(state.documents)
        /\ pc = END =>
              /\ Len(state.messages) = PriorLen + 2
              /\ state.messages[PriorLen + 1] = Message("human", Text(input.query), NoKwargs)
              /\ state.messages[PriorLen + 2].type = "ai"

(* C7: the human turn generateResponse appends holds the original          *)
(* unformatted query; the rendered prompt goes to the model for that one   *)
(* call and never becomes an element of `messages`.                        *)
C7_PromptNeverStored ==
    /\ \A i \in DOMAIN state.messages : state.messages[i].content.kind # "prompt"
    /\ \A i \in CallsOf("generateResponse") :
          LET sent == modelCalls[i].messages
          IN  /\ sent # <<>>
              /\ sent[Len(sent)].content = Prompt(input.query, formatDocs(state.documents))
    /\ pc = END /\ "generateResponse" \in Range(ran) =>
          /\ Len(state.messages) = PriorLen + 2
          /\ state.messages[PriorLen + 1] = Message("human", Text(input.query), NoKwargs)
          /\ SubSeq(state.messages, 1, PriorLen) = input.messages

C7_Witness ==
    /\ pc = END
    /\ "generateResponse" \in Range(ran)
    /\ state.documents # <<>>
    /\ modelCalls[1].messages[PriorLen + 1].content.kind = "prompt"

\* The turn `normalized` is the normalized form of the turn `turn`.
IsNormalizedFormOf(normalized, turn) ==
    /\ normalized.type = (IF turn.type = "ai" THEN "ai" ELSE "human")
    /\ normalized.content = turn.content
    /\ DOMAIN normalized.additional_kwargs = (DOMAIN turn.additional_kwargs) \ {"name"}
    /\ \A k \in DOMAIN normalized.additional_kwargs :
          normalized.additional_kwargs[k] = turn.additional_kwargs[k]

(* C8: what generateResponse sends to the model is the normalized form of  *)
(* the full prior `messages` history, in order, followed by exactly one    *)
(* human turn, placed last, holding the rendered response prompt; its      *)
(* length is that of `messages` plus one.                                  *)
C8_ModelInput ==
    \A i \in CallsOf("generateResponse") :
        LET sent == modelCalls[i].messages
        IN  /\ Len(sent) = PriorLen + 1
            /\ \A j \in 1..PriorLen : IsNormalizedFormOf(sent[j], input.messages[j])
            /\ sent[PriorLen + 1] =
                  Message("human", Prompt(input.query, formatDocs(state.documents)), NoKwargs)

C8_Witness ==
    /\ CallsOf("generateResponse") # {}
    /\ PriorLen = 2
    /\ input.messages[1].type = "system"
    /\ input.messages[2].type = "ai"
    /\ Len(state.documents) = 2

(* C9: normalizeMessages is idempotent: normalizing its own result gives   *)
(* a sequence of the same length with, position by position, the same      *)
(* role, content and metadata.                                             *)
C9_NormalizeIdempotent ==
    nmCalls = 2 =>
        /\ Len(nmOut2) = Len(nmOut)
        /\ \A i \in DOMAIN nmOut :
              /\ nmOut2[i].type = nmOut[i].type
              /\ nmOut2[i].content = nmOut[i].content
              /\ nmOut2[i].additional_kwargs = nmOut[i].additional_kwargs

C9_Witness ==
    /\ nmCalls = 2
    /\ Len(nmArg0) = 2
    /\ nmArg0[1].type = "system"
    /\ "name" \in DOMAIN nmArg0[1].additional_kwargs
    /\ nmArg0[2].type = "ai"
    /\ nmOut # nmArg0

(* C10: no turn normalizeMessages returns has a `name` key in its          *)
(* metadata, whether or not the input turn had one; every other metadata   *)
(* key and value is carried over unchanged; the input turns are not        *)
(* mutated.                                                                *)
C10_NameStripped ==
    nmCalls >= 1 =>
        /\ Len(nmOut) = Len(nmArg0)
        /\ \A i \in DOMAIN nmOut :
              /\ "name" \notin DOMAIN nmOut[i].additional_kwargs
              /\ DOMAIN nmOut[i].additional_kwargs = (DOMAIN nmArg0[i].additional_kwargs) \ {"name"}
              /\ \A k \in DOMAIN nmOut[i].additional_kwargs :
                    nmOut[i].additional_kwargs[k] = nmArg0[i].additional_kwargs[k]
        /\ nmArg = nmArg0

C10_Witness ==
    /\ nmCalls = 1
    /\ Len(nmArg0) = 2
    /\ DOMAIN nmArg0[1].additional_kwargs = {"name", "function_call"}
    /\ DOMAIN nmArg0[2].additional_kwargs = {}
    /\ DOMAIN nmOut[1].additional_kwargs = {"function_call"}

(* C11: normalizeMessages maps every turn's role onto human or assistant:  *)
(* a turn of role 'ai' stays an assistant turn, a turn of any other role   *)
(* becomes a human turn; the result has the length and order of the input  *)
(* and every turn's content is unchanged.                                  *)
C11_RolesCoerced ==
    nmCalls >= 1 =>
        /\ Len(nmOut) = Len(nmArg0)
        /\ \A i \in DOMAIN nmOut :
              /\ nmOut[i].type \in {"human", "ai"}
              /\ nmOut[i].type = "ai" <=> nmArg0[i].type = "ai"
              /\ nmOut[i].content = nmArg0[i].content

C11_Witness ==
    /\ nmCalls = 1
    /\ Len(nmArg0) = 2
    /\ nmArg0[1].type = "tool"
    /\ nmArg0[2].type = "ai"
    /\ nmArg0[1].content # nmArg0[2].content
    /\ nmOut[1].type = "human"
    /\ nmOut[2].type = "ai"

ExternalErrors == {"schema", "model", "retriever"}

FailedModelCalls == {i \in DOMAIN modelCalls : modelCalls[i].response = NoResponse}

(* C12: when an external call fails (the router's structured call or its   *)
(* schema coercion, the retriever call, a terminal node's model call) the  *)
(* invocation aborts there with the error reported: the failing node       *)
(* applies no update, nothing runs afterwards (no retry, no later node),   *)
(* and the invocation does not reach END.                                  *)
C12_FailureAborts ==
    [][ /\ pc # "error"
        /\ err = ""
        /\ err' # "" =>
              /\ err' \in ExternalErrors
              /\ pc' = "error"
              /\ state' = state
        /\ FailedModelCalls' # {} => pc' = "error" /\ err' = "model"
        /\ pc' = "error" => err' # ""
        /\ pc' = END => err' = "" /\ FailedModelCalls' = {}
        /\ routerCalls' <= 1
        /\ Len(retrieved') <= 1
        /\ Cardinality(CallsOf("directAnswer")') + Cardinality(CallsOf("generateResponse")') <= 1
      ]_vars

C12_Witness ==
    /\ pc = "error"
    /\ err = "model"
    /\ ran = <<"checkQueryType", "retrieveDocuments", "generateResponse">>
    /\ state.messages = input.messages
    /\ state.documents # <<>>

\* A document with no usable source, filename or page: each absent (or, for
\* source and filename, empty).
UnderSpecified(doc) ==
    /\ ~Truthy(doc.source)
    /\ ~Truthy(doc.filename)
    /\ Nullish(doc.pageNumber)

ExpectedKeySource(doc) ==
    IF Truthy(doc.source) THEN TemplateStr(doc.source)
    ELSE IF Truthy(doc.filename) THEN TemplateStr(doc.filename)
    ELSE "unknown-source"

ExpectedKeyPage(doc) ==
    IF doc.pageNumber = Undefined THEN "unknown-page" ELSE TemplateStr(doc.pageNumber)

(* C13: a document's identity uses metadata.source, else                   *)
(* metadata.filename, else 'unknown-source', and metadata.loc.pageNumber,  *)
(* else 'unknown-page'; so documents that lack source, filename and page   *)
(* are duplicates of each other and only the first of them is kept.        *)
C13_IdentityFallbacks ==
    RetrieveCompleted =>
        LET response == retrieved[1]
            lacking == {i \in DOMAIN response : UnderSpecified(response[i])}
        IN  /\ \A d \in Range(response) :
                  docKey(d) = ExpectedKeySource(d) \o "::" \o ExpectedKeyPage(d)
            /\ \A i \in lacking : docKey(response[i]) = "unknown-source::unknown-page"
            /\ lacking # {} =>
                  SelectSeq(state.documents, UnderSpecified) =
                      <<response[CHOOSE i \in lacking : \A j \in lacking : i <= j]>>

C13_Witness ==
    /\ RetrieveCompleted
    /\ Len(retrieved[1]) = 3
    /\ retrieved[1][1].pageContent = "d2"
    /\ retrieved[1][2].pageContent = "d4"
    /\ retrieved[1][3].pageContent = "d3"
    /\ Len(state.documents) = 2
    /\ state.documents[2].pageContent = "d4"

(* C14: each field of the Workflow State is written only by its node:      *)
(* `query` by none, `route` once and only by checkQueryType, `documents`   *)
(* only by retrieveDocuments, which leaves `messages` alone, and           *)
(* `messages` only by directAnswer and generateResponse.                   *)
C14_FieldWriters ==
    [][ /\ state'.query = state.query
        /\ state'.route # state.route =>
              /\ pc = "checkQueryType"
              /\ state.route = Undefined
              /\ routerCalls = 0
        /\ state'.documents # state.documents =>
              /\ pc = "retrieveDocuments"
              /\ state'.messages = state.messages
        /\ pc = "retrieveDocuments" => state'.messages = state.messages
        /\ state'.messages # state.messages => pc \in {"directAnswer", "generateResponse"}
        /\ pc' \in {"routeQuery", "retrieveDocuments", "directAnswer", "generateResponse", END} =>
              state'.route # Undefined
      ]_vars

C14_Witness ==
    /\ pc = END
    /\ state.query = input.query
    /\ state.route = Str("retrieve")
    /\ state.documents # input.documents
    /\ state.messages # input.messages

\* The invocation `inv` holds what a run of its own would hold: its Workflow
\* State and its model inputs are those of its own query, prior messages and
\* external answers.
OwnState(inv) ==
    LET q == inv.input.query
        prior == inv.input.messages
        docs == IF inv.retrieved = <<>> THEN <<>> ELSE uniqueDocuments(inv.retrieved[1])
    IN  /\ inv.state.query = q
        /\ inv.state.documents = docs
        /\ inv.state.messages =
              prior \o (IF inv.pc = END
                        THEN <<HumanMessage(Text(q)), inv.modelCalls[1].response>>
                        ELSE <<>>)
        /\ inv.state.route =
              (IF Len(inv.ran) < 2 /\ inv.pc \notin {"routeQuery", "retrieveDocuments", "directAnswer"}
               THEN Undefined
               ELSE IF inv.pc = "routeQuery" THEN inv.state.route
               ELSE IF inv.pc = "directAnswer" \/ "directAnswer" \in Range(inv.ran)
               THEN Str("direct") ELSE Str("retrieve"))
        /\ \A i \in DOMAIN inv.modelCalls :
              inv.modelCalls[i].messages =
                  (IF inv.modelCalls[i].node = "directAnswer"
                   THEN <<HumanMessage(Text(q))>>
                   ELSE normalizeMessages(prior) \o <<HumanMessage(Prompt(q, formatDocs(docs)))>>)

(* C15: with several invocations in progress and their node steps          *)
(* interleaved, each invocation owns its Workflow State: a step of one     *)
(* neither reads nor changes the query, route, documents or messages of    *)
(* another, so each holds what it would hold had it run alone with the     *)
(* same external answers.                                                  *)
C15_InvocationsIsolated ==
    [][ /\ OwnState(Current)'
        /\ OwnState(peer)'
        /\ \/ peer' = peer
           \/ peer' = Current /\ Current' = peer
      ]_vars

C15_Witness ==
    /\ pc = END
    /\ peer.pc = END
    /\ state.route = Str("retrieve")
    /\ peer.state.route = Str("retrieve")
    /\ retrieved[1] # <<>>
    /\ peer.retrieved[1] # <<>>
    /\ docKey(retrieved[1][1]) = docKey(peer.retrieved[1][1])
    /\ state.documents # peer.state.documents
    /\ state.messages # peer.state.messages


(* C16: directAnswer invokes the model on a one-turn history, the          *)
(* normalized human turn built from `query`, whatever prior turns          *)
(* `messages` holds, whereas generateResponse sends the whole prior        *)
(* history; directAnswer calls no retriever and the model exactly once.    *)
C16_DirectSingleTurn ==
    /\ \A i \in CallsOf("directAnswer") :
          LET sent == modelCalls[i].messages
          IN  /\ Len(sent) = 1
              /\ sent[1].type = "human"
              /\ sent[1].content = Text(input.query)
              /\ sent[1].additional_kwargs = NoKwargs
    /\ \A i \in CallsOf("generateResponse") :
          Len(modelCalls[i].messages) = PriorLen + 1
    /\ "directAnswer" \in Range(ran) =>
          /\ retrieved = <<>>
          /\ "retrieveDocuments" \notin Range(ran)
          /\ Len(modelCalls) = 1
          /\ CallsOf("directAnswer") = {1}

C16_Witness ==
    /\ pc = END
    /\ CallsOf("directAnswer") # {}
    /\ PriorLen = 2
    /\ Len(modelCalls[1].messages) = 1


(* C17: under fairness every invocation terminates: it reaches the end     *)
(* after at most three node executions (checkQueryType, then directAnswer, *)
(* or retrieveDocuments and generateResponse) or aborts with an error, and *)
(* no node is ever entered a second time.                                  *)
Terminated == pc \in {END, "error"}

C17_Terminates ==
    /\ <>Terminated
    /\ [](/\ Len(ran) <= 3
          /\ \A i, j \in DOMAIN ran : ran[i] = ran[j] => i = j
          /\ pc = END => ran \in AllowedPaths /\ err = ""
          /\ pc = "error" => err # "")
    /\ [][Terminated => UNCHANGED vars]_vars

C17_Witness ==
    /\ pc = END
    /\ Len(ran) = 3
    /\ Len(modelCalls) = 1


(* C18: in the compiled graph the dispatch never raises: routeQuery is     *)
(* evaluated only after checkQueryType has completed successfully, and     *)
(* checkQueryType sets `route` to 'retrieve' or 'direct' only, so the      *)
(* 'Route is not set' and 'Invalid route' errors are never reached and     *)
(* `route` is set whenever the conditional branch is evaluated.            *)
DispatchErrors == {"Route is not set", "Invalid route"}

C18_DispatchNeverRaises ==
    /\ err \notin DispatchErrors
    /\ pc = "routeQuery" =>
          /\ ran = <<"checkQueryType">>
          /\ err = ""
          /\ ~Nullish(state.route)
          /\ state.route \in {Str("retrieve"), Str("direct")}
          /\ routeQuery(state).ok

C18_Witness ==
    /\ pc \in BranchTargets
    /\ ran = <<"checkQueryType">>
    /\ state.route = Str("direct")
    /\ err = ""


(* C19: the key `${source}::${page}` is injective on identities: a         *)
(* retrieved document is dropped as a duplicate only if an earlier, kept   *)
(* document has an equal resolved source and an equal resolved page;       *)
(* documents with different (source, page) pairs are never merged, also    *)
(* when a source contains '::' or a page number and a page string print    *)
(* the same.                                                               *)
ResolvedPair(doc) == <<docSource(doc), docPage(doc)>>

C19_KeyInjective ==
    RetrieveCompleted =>
        LET response == retrieved[1]
            documents == state.documents
        IN  /\ \A i \in DOMAIN response :
                  \E k \in DOMAIN documents :
                      ResolvedPair(documents[k]) = ResolvedPair(response[i])
            /\ \A i, j \in DOMAIN response :
                  docKey(response[i]) = docKey(response[j]) =>
                      ResolvedPair(response[i]) = ResolvedPair(response[j])


(* C20: an empty retrieval result neither short-circuits nor fails the     *)
(* workflow: when the retriever returns no document, `documents` is the    *)
(* empty sequence, generateResponse still runs and calls the model exactly *)
(* once, with an empty context block, and the completed invocation has     *)
(* added the original query turn and the assistant turn to `messages`.     *)
EmptyRetrieval == RetrieveCompleted /\ retrieved[1] = <<>>

C20_EmptyRetrievalStillAnswers ==
    EmptyRetrieval =>
        /\ state.documents = <<>>
        /\ pc \in {"generateResponse", END, "error"}
        /\ pc = "generateResponse" => err = "" /\ modelCalls = <<>>
        /\ pc # "generateResponse" =>
              /\ ran = <<"checkQueryType", "retrieveDocuments", "generateResponse">>
              /\ CallsOf("generateResponse") = {1}
              /\ Len(modelCalls) = 1
              /\ modelCalls[1].messages[PriorLen + 1].content = Prompt(input.query, <<>>)
        /\ pc = "error" => err = "model" /\ modelCalls[1].response = NoResponse
        /\ pc = END =>
              /\ Len(state.messages) = PriorLen + 2
              /\ state.messages[PriorLen + 1] = Message("human", Text(input.query), NoKwargs)
              /\ state.messages[PriorLen + 2] = modelCalls[1].response
              /\ state.messages[PriorLen + 2].type = "ai"

C20_Witness ==
    /\ EmptyRetrieval
    /\ pc = END
    /\ PriorLen = 1
    /\ Len(state.messages) = 3

====
